---- MODULE Spec2Model ----
(***************************************************************************)
(* Source mappings of slither (slither/core/source_mapping/                *)
(* source_mapping.py): the Source record, _compute_line,                   *)
(* _convert_source_mapping and the SourceMapping mixin.                    *)
(*                                                                         *)
(* Python strings are sequences of one-character strings; byte strings are *)
(* sequences of integers 0..255; texts are sequences of code points.       *)
(* Python objects that are shared by reference (Source) live in `heap` and *)
(* are named by their index in it; MaxObjs bounds how many are allocated.  *)
(***************************************************************************)
EXTENDS Integers, Sequences, FiniteSets, TLC

VARIABLES
    pc,                 \* position of the caller of the pure functions
    offset,             \* the raw encoding handed to _convert_source_mapping
    compilation_unit,   \* the compilation unit handed to it
    ret,                \* what the call returned or raised
    out,                \* what the last Source method returned or raised
    heap,               \* the Source objects allocated so far (or Freed)
    source_mapping,     \* SourceMapping.source_mapping of every entity
    references,         \* SourceMapping.references of every entity
    history,            \* per entity, the spans its add_reference calls returned
    last                \* the last SourceMapping call and how it ended

vars == <<pc, offset, compilation_unit, ret, out, heap, source_mapping,
          references, history, last>>

(***************************************************************************)
(* Bounds of the model.                                                    *)
(***************************************************************************)
MaxRawLen == 6
MaxObjs == 2

Digits == <<"0", "1", "2", "3", "4", "5", "6", "7", "8", "9">>
DigitChars == {Digits[i] : i \in 1..10}

\* The characters raw encodings are drawn from: digits, the two characters of
\* the grammar, and one character outside it.
Alphabet == {"0", "1", "2", ":", "-", "x"}
RawStrings == UNION {[1..n -> Alphabet] : n \in 0..MaxRawLen}

(***************************************************************************)
(* Python built-ins the code relies on.                                    *)
(***************************************************************************)
Slice(seq, a, b) ==                 \* seq[a:b], 0-based, clamped like Python
    LET lo == IF a > Len(seq) THEN Len(seq) ELSE a
        hi == IF b > Len(seq) THEN Len(seq) ELSE b
    IN  IF hi <= lo THEN <<>> ELSE [i \in 1..(hi - lo) |-> seq[lo + i]]

DigitValue(c) == CHOOSE d \in 0..9 : Digits[d + 1] = c

RECURSIVE DigitsToNat(_)
DigitsToNat(ds) ==
    IF ds = <<>> THEN 0
    ELSE 10 * DigitsToNat(SubSeq(ds, 1, Len(ds) - 1)) + DigitValue(ds[Len(ds)])

\* int(text) for the texts the regular expression's groups can hold:
\* an optional sign followed by digits.  No digit at all is a ValueError.
IntOk(text) ==
    LET body == IF text # <<>> /\ text[1] = "-" THEN Tail(text) ELSE text
    IN  body # <<>> /\ \A i \in 1..Len(body) : body[i] \in DigitChars

int(text) ==
    IF text # <<>> /\ text[1] = "-" THEN 0 - DigitsToNat(Tail(text))
    ELSE DigitsToNat(text)

RECURSIVE NatToStr(_)
NatToStr(n) ==                      \* str(n) for n >= 0
    IF n < 10 THEN <<Digits[n + 1]>>
    ELSE NatToStr(n \div 10) \o <<Digits[(n % 10) + 1]>>

str(n) == IF n < 0 THEN <<"-">> \o NatToStr(0 - n) ELSE NatToStr(n)

range(a, b) ==                      \* list(range(a, b))
    IF b <= a THEN <<>> ELSE [i \in 1..(b - a) |-> a + i - 1]

\* str.encode("utf8") of one code point (up to three bytes are needed here).
EncodeChar(cp) ==
    IF cp < 128 THEN <<cp>>
    ELSE IF cp < 2048 THEN <<192 + (cp \div 64), 128 + (cp % 64)>>
    ELSE <<224 + (cp \div 4096), 128 + ((cp \div 64) % 64), 128 + (cp % 64)>>

RECURSIVE encode(_)
encode(text) ==
    IF text = <<>> THEN <<>> ELSE EncodeChar(Head(text)) \o encode(Tail(text))

IsCont(b) == b >= 128 /\ b < 192

\* bytes.decode("utf8"): [ok, text]; ok is FALSE for a UnicodeDecodeError
\* (a continuation byte where a character starts, or a truncated character).
RECURSIVE decode(_)
decode(bytes) ==
    IF bytes = <<>> THEN [ok |-> TRUE, text |-> <<>>]
    ELSE LET b == bytes[1]
             w == IF b < 128 THEN 1
                  ELSE IF b >= 194 /\ b < 224 THEN 2
                  ELSE IF b >= 224 /\ b < 240 THEN 3
                  ELSE 0
         IN  IF w = 0 \/ Len(bytes) < w
                \/ \E k \in 2..w : ~IsCont(bytes[k])
             THEN [ok |-> FALSE, text |-> <<>>]
             ELSE LET cp == IF w = 1 THEN b
                            ELSE IF w = 2 THEN (b - 192) * 64 + (bytes[2] - 128)
                            ELSE (b - 224) * 4096 + (bytes[2] - 128) * 64
                                 + (bytes[3] - 128)
                      rest == decode(SubSeq(bytes, w + 1, Len(bytes)))
                  IN  [ok |-> rest.ok,
                       text |-> IF rest.ok THEN <<cp>> \o rest.text ELSE <<>>]

(***************************************************************************)
(* re.findall of the pattern of _convert_source_mapping (digits, a colon,  *)
(* digits, a colon, an optional minus sign, digits; each run of digits may *)
(* be empty and is one group): the groups of the non-overlapping matches,  *)
(* scanning from the left.  Every quantifier is greedy and no character    *)
(* class overlaps the literal that follows it, so the match at a position, *)
(* if any, is unique.                                                      *)
(***************************************************************************)
RECURSIVE DigitRun(_, _)
DigitRun(text, p) ==                \* first position >= p that holds no digit
    IF p <= Len(text) /\ text[p] \in DigitChars THEN DigitRun(text, p + 1) ELSE p

IsAt(text, p, c) == p <= Len(text) /\ text[p] = c

\* The match starting at position p: [ok, groups, next].
MatchAt(text, p) ==
    LET e1 == DigitRun(text, p)
        e2 == DigitRun(text, e1 + 1)
        b3 == IF IsAt(text, e2 + 1, "-") THEN e2 + 2 ELSE e2 + 1
        e3 == DigitRun(text, b3)
    IN  IF IsAt(text, e1, ":") /\ IsAt(text, e2, ":")
        THEN [ok |-> TRUE,
              groups |-> <<SubSeq(text, p, e1 - 1), SubSeq(text, e1 + 1, e2 - 1),
                           SubSeq(text, e2 + 1, e3 - 1)>>,
              next |-> e3]
        ELSE [ok |-> FALSE, groups |-> <<>>, next |-> p + 1]

RECURSIVE FindAllFrom(_, _)
FindAllFrom(text, p) ==
    IF p > Len(text) THEN <<>>
    ELSE LET m == MatchAt(text, p)
         IN  IF m.ok THEN <<m.groups>> \o FindAllFrom(text, m.next)
             ELSE FindAllFrom(text, m.next)

findall(text) == FindAllFrom(text, 1)

(***************************************************************************)
(* The compilation units of the model and what they hand to this file:     *)
(* source_units, core.line_prefix, core.source_code and crytic_compile's   *)
(* filename_lookup, is_dependency and get_line_from_offset.                *)
(***************************************************************************)
CompilationUnits == {"cu1", "cu2"}

Filename(absolute, used, relative, short) ==
    [absolute |-> absolute, used |-> used, relative |-> relative, short |-> short]

FileA == Filename(<<"/", "s", "/", "a">>, <<"s", "/", "a">>, <<"s", "/", "a">>, <<"a">>)
FileB == Filename(<<"/", "n", "/", "b">>, <<"n", "/", "b">>, <<"n", "/", "b">>, <<"b">>)
Files == {FileA, FileB}

\* compilation_unit.source_units: file index -> the file name the build used.
source_units(cu) ==
    IF cu = "cu1" THEN (0 :> FileA.used) ELSE (0 :> FileA.used) @@ (1 :> FileB.used)

line_prefix(cu) == IF cu = "cu1" THEN <<"#">> ELSE <<":">>

filename_lookup(cu, used) == CHOOSE f \in Files : f.used = used

is_dependency(cu, absolute) == absolute = FileB.absolute

\* core.source_code: absolute file name -> text (code points).
\* FileA holds "a\n" followed by U+00E9, FileB holds U+00E9 followed by "\nb".
source_code(cu) ==
    (FileA.absolute :> <<97, 10, 233>>) @@ (FileB.absolute :> <<233, 10, 98>>)

\* The number of line breaks among the first n bytes.
RECURSIVE Newlines(_, _)
Newlines(bytes, n) ==
    IF n = 0 THEN 0 ELSE Newlines(bytes, n - 1) + (IF bytes[n] = 10 THEN 1 ELSE 0)

\* The 0-based offset at which the line holding offset n starts.
RECURSIVE LineStart(_, _)
LineStart(bytes, n) ==
    IF n = 0 \/ bytes[n] = 10 THEN n ELSE LineStart(bytes, n - 1)

\* The offsets the line index of a file knows: every byte, and the end.
KnownOffsets(cu, filename) == 0..Len(encode(source_code(cu)[filename.absolute]))

\* crytic_compile.get_line_from_offset: (line, column), both from 1; the entry
\* of the end of the file is (number of lines + 1, 0).  An offset outside
\* KnownOffsets is a KeyError, which the callers below test for.
get_line_from_offset(cu, filename, n) ==
    LET bytes == encode(source_code(cu)[filename.absolute])
    IN  IF n < Len(bytes)
        THEN <<Newlines(bytes, n) + 1, n - LineStart(bytes, n) + 1>>
        ELSE <<Newlines(bytes, n) + (IF n > 0 /\ bytes[n] # 10 THEN 1 ELSE 0) + 1, 0>>

(***************************************************************************)
(* class Source                                                            *)
(***************************************************************************)
\* Source.__init__
Source(cu) ==
    [start |-> 0, length |-> 0, filename |-> Filename(<<>>, <<>>, <<>>, <<>>),
     is_dependency |-> FALSE, lines |-> <<>>, starting_column |-> 0,
     ending_column |-> 0, end |-> 0, compilation_unit |-> cu]

Return(value) == [kind |-> "return", value |-> value]
Raise(exc, msg) == [kind |-> "raise", exc |-> exc, msg |-> msg]

\* _compute_line as it would be with range(start_line, end_line): the line
\* of the end offset is left out.
_compute_line_without_last(cu, filename, start, length) ==
    IF start \notin KnownOffsets(cu, filename) THEN Raise("KeyError", <<>>)
    ELSE IF start + length \notin KnownOffsets(cu, filename)
    THEN Raise("SlitherException", filename.short)
    ELSE LET first == get_line_from_offset(cu, filename, start)
             final == get_line_from_offset(cu, filename, start + length)
         IN  Return(<<range(first[1], final[1]), first[2], final[2]>>)

\* _compute_line: only the lookup of the end offset is inside the try.
_compute_line(cu, filename, start, length) ==
    IF start \notin KnownOffsets(cu, filename) THEN Raise("KeyError", <<>>)
    ELSE IF start + length \notin KnownOffsets(cu, filename)
    THEN Raise("SlitherException", filename.short)
    ELSE LET first == get_line_from_offset(cu, filename, start)
             final == get_line_from_offset(cu, filename, start + length)
         IN  Return(<<range(first[1], final[1] + 1), first[2], final[2]>>)

\* _convert_source_mapping
_convert_source_mapping(raw, cu) ==
    LET position == findall(raw)
    IN  IF Len(position) # 1 THEN Return(Source(cu))
        ELSE IF \E i \in 1..3 : ~IntOk(position[1][i])
        THEN Raise("ValueError", <<>>)
        ELSE LET s == int(position[1][1])
                 l == int(position[1][2])
                 f == int(position[1][3])
             IN  IF f \notin DOMAIN source_units(cu)
                 THEN Return([Source(cu) EXCEPT !.start = s, !.length = l])
                 ELSE LET filename == filename_lookup(cu, source_units(cu)[f])
                          computed == _compute_line(cu, filename, s, l)
                      IN  IF computed.kind = "raise" THEN computed
                          ELSE Return([Source(cu) EXCEPT
                                   !.start = s, !.length = l,
                                   !.filename = filename,
                                   !.is_dependency = is_dependency(cu, filename.absolute),
                                   !.lines = computed.value[1],
                                   !.starting_column = computed.value[2],
                                   !.ending_column = computed.value[3],
                                   !.end = s + l])

\* Source._get_lines_str as it would be without the case of a single line.
_get_lines_str_always_range(self, line_descr) ==
    LET prefix == line_prefix(self.compilation_unit)
        lines == self.lines
    IN  IF lines = <<>> THEN <<>>
        ELSE prefix \o line_descr \o str(lines[1]) \o <<"-">> \o line_descr
             \o str(lines[Len(lines)])

\* Source._get_lines_str
_get_lines_str(self, line_descr) ==
    LET prefix == line_prefix(self.compilation_unit)
        lines == self.lines
    IN  IF lines = <<>> THEN <<>>
        ELSE IF Len(lines) = 1 THEN prefix \o line_descr \o str(lines[1])
        ELSE prefix \o line_descr \o str(lines[1]) \o <<"-">> \o line_descr
             \o str(lines[Len(lines)])

\* Source.to_markdown
to_markdown(self, markdown_root) ==
    markdown_root \o self.filename.relative \o _get_lines_str(self, <<"L">>)

\* Source.to_detailed_str
to_detailed_str(self) ==
    self.filename.short \o _get_lines_str(self, <<>>) \o <<" ", "(">>
    \o str(self.starting_column) \o <<" ", "-", " ">> \o str(self.ending_column)
    \o <<")">>

\* Source.__str__
__str__(self) == self.filename.short \o _get_lines_str(self, <<>>)

\* Source.content as it would be with source_code[start:end]: the text is
\* sliced by character index.
content_by_characters(self) ==
    LET code == source_code(self.compilation_unit)
    IN  IF self.filename.absolute \notin DOMAIN code THEN Raise("KeyError", <<>>)
        ELSE Return(Slice(code[self.filename.absolute], self.start, self.end))

\* Source.content
content(self) ==
    LET code == source_code(self.compilation_unit)
    IN  IF self.filename.absolute \notin DOMAIN code THEN Raise("KeyError", <<>>)
        ELSE LET text == decode(Slice(encode(code[self.filename.absolute]),
                                      self.start, self.end))
             IN  IF text.ok THEN Return(text.text)
                 ELSE Raise("UnicodeDecodeError", <<>>)

\* Source.__hash__: the tuple that is hashed.
__hash__(self) == <<self.start, self.length, self.filename.relative, self.end>>

\* Source.__eq__
__eq__(self, other) ==
    /\ self.start = other.start
    /\ self.filename.relative = other.filename.relative
    /\ self.is_dependency = other.is_dependency
    /\ self.end = other.end

(***************************************************************************)
(* The pure functions, applied to every raw encoding up to MaxRawLen:      *)
(* a caller converts `offset` against `compilation_unit`, and then calls   *)
(* one method of the Source it got.                                        *)
(***************************************************************************)
NoCall == [kind |-> "none"]
NoOut == [op |-> "none"]
MarkdownRoots == {<<>>, <<"r", "/">>}

Entities == {"A", "B"}
None == 0

\* SourceMapping.__init__ of every entity; no Source exists yet.
InitEntities ==
    /\ heap = <<>>
    /\ source_mapping = [e \in Entities |-> None]
    /\ references = [e \in Entities |-> <<>>]
    /\ history = [e \in Entities |-> <<>>]
    /\ last = [op |-> "none"]

InitDecode ==
    /\ pc = "call"
    /\ offset \in RawStrings
    /\ compilation_unit \in CompilationUnits
    /\ ret = NoCall
    /\ out = NoOut
    /\ InitEntities

Convert ==
    /\ pc = "call"
    /\ ret' = _convert_source_mapping(offset, compilation_unit)
    /\ pc' = "converted"
    /\ UNCHANGED <<offset, compilation_unit, out, heap, source_mapping,
                   references, history, last>>

\* A method of the returned Source; the raw encoding is no longer in scope.
Method(op, result) ==
    /\ pc = "converted"
    /\ ret.kind = "return"
    /\ out' = [op |-> op, result |-> result]
    /\ offset' = <<>>
    /\ pc' = "done"
    /\ UNCHANGED <<compilation_unit, ret, heap, source_mapping, references,
                   history, last>>

Content == Method("content", content(ret.value))

Str == Method("__str__", Return(__str__(ret.value)))

ToDetailedStr == Method("to_detailed_str", Return(to_detailed_str(ret.value)))

ToMarkdown ==
    \E root \in MarkdownRoots :
        Method("to_markdown", [kind |-> "return", root |-> root,
                               value |-> to_markdown(ret.value, root)])

NextDecode == Convert \/ Content \/ Str \/ ToDetailedStr \/ ToMarkdown

SpecDecode == InitDecode /\ [][NextDecode]_vars

(***************************************************************************)
(* class SourceMapping: entities that call set_offset and                  *)
(* add_reference_from_raw_source in any order.  A Source argument of       *)
(* set_offset is a Source some entity holds; a raw argument is one of      *)
(* SampleOffsets, two encodings of file index 1 with the same start: cu1   *)
(* does not know that index, and in cu2 the line index does not know the   *)
(* end offset of the second.                                               *)
(***************************************************************************)
SampleOffsets == {<<"0", ":", "1", ":", "1">>, <<"0", ":", "9", ":", "1">>}

HeapIds == 1..Len(heap)

\* A span without the compilation unit it is bound to.
Span(source) ==
    [start |-> source.start, length |-> source.length, end |-> source.end,
     filename |-> source.filename, is_dependency |-> source.is_dependency,
     lines |-> source.lines, starting_column |-> source.starting_column,
     ending_column |-> source.ending_column]

\* The Source objects an entity holds, as its primary span or as a reference.
Held ==
    {id \in HeapIds : \E e \in Entities :
        \/ source_mapping[e] = id
        \/ \E i \in 1..Len(references[e]) : references[e][i] = id}

\* Python frees an object when the last reference to it is dropped: the
\* Source that an assignment to source_mapping replaces is gone unless some
\* entity still holds it.
Freed == [freed |-> TRUE]

Release(objects, primaries, refs) ==
    [id \in 1..Len(objects) |->
        IF \E e \in Entities :
              \/ primaries[e] = id
              \/ \E i \in 1..Len(refs[e]) : refs[e][i] = id
        THEN objects[id] ELSE Freed]

Outcome(call) == IF call.kind = "raise" THEN call.exc ELSE "ok"

\* SourceMapping.set_offset with a Source: the entity keeps the object it is
\* handed, and the object's compilation unit is overwritten.
SetOffsetSource(self, id, cu) ==
    /\ source_mapping' = [source_mapping EXCEPT ![self] = id]
    /\ heap' = Release([heap EXCEPT ![id].compilation_unit = cu],
                       source_mapping', references)
    /\ last' = [op |-> "set_offset", outcome |-> "ok"]
    /\ UNCHANGED <<references, history>>

\* SourceMapping.set_offset with a raw encoding.
SetOffsetRaw(self, raw, cu) ==
    LET call == _convert_source_mapping(raw, cu)
    IN  /\ last' = [op |-> "set_offset", outcome |-> Outcome(call)]
        /\ IF call.kind = "raise"
           THEN UNCHANGED <<heap, source_mapping>>
           ELSE /\ Len(heap) < MaxObjs
                /\ source_mapping' = [source_mapping EXCEPT ![self] = Len(heap) + 1]
                /\ heap' = Release(Append(heap, [call.value EXCEPT
                                                    !.compilation_unit = cu]),
                                   source_mapping', references)
        /\ UNCHANGED <<references, history>>

set_offset ==
    /\ \E self \in Entities, cu \in CompilationUnits :
        \/ \E id \in Held : SetOffsetSource(self, id, cu)
        \/ \E raw \in SampleOffsets : SetOffsetRaw(self, raw, cu)
    /\ UNCHANGED <<pc, offset, compilation_unit, ret, out>>

\* add_reference_from_raw_source as it would be with references.insert(0, s).
AddReferenceAtFront(self, raw, cu) ==
    LET call == _convert_source_mapping(raw, cu)
    IN  /\ last' = [op |-> "add_reference_from_raw_source",
                    outcome |-> Outcome(call)]
        /\ IF call.kind = "raise"
           THEN UNCHANGED <<heap, references, history>>
           ELSE /\ Len(heap) < MaxObjs
                /\ heap' = Append(heap, call.value)
                /\ references' = [references EXCEPT
                                     ![self] = <<Len(heap) + 1>> \o @]
                /\ history' = [history EXCEPT ![self] = Append(@, Span(call.value))]
        /\ UNCHANGED source_mapping

\* SourceMapping.add_reference_from_raw_source
AddReference(self, raw, cu) ==
    LET call == _convert_source_mapping(raw, cu)
    IN  /\ last' = [op |-> "add_reference_from_raw_source",
                    outcome |-> Outcome(call)]
        /\ IF call.kind = "raise"
           THEN UNCHANGED <<heap, references, history>>
           ELSE /\ Len(heap) < MaxObjs
                /\ heap' = Append(heap, call.value)
                /\ references' = [references EXCEPT
                                     ![self] = Append(@, Len(heap) + 1)]
                /\ history' = [history EXCEPT ![self] = Append(@, Span(call.value))]
        /\ UNCHANGED source_mapping

add_reference_from_raw_source ==
    /\ \E self \in Entities, raw \in SampleOffsets, cu \in CompilationUnits :
        AddReference(self, raw, cu)
    /\ UNCHANGED <<pc, offset, compilation_unit, ret, out>>

Init ==
    /\ pc = "idle"
    /\ offset = <<>>
    /\ compilation_unit = "cu1"
    /\ ret = NoCall
    /\ out = NoOut
    /\ InitEntities

Next == set_offset \/ add_reference_from_raw_source

Spec == Init /\ [][Next]_vars

(***************************************************************************)
(* The wire format as the specification states it: the whole string is     *)
(* digits, a colon, digits, a colon, an optional minus sign, digits.       *)
(***************************************************************************)
AllDigits(text) == \A i \in 1..Len(text) : text[i] \in DigitChars

FileField(text) ==
    AllDigits(text) \/ (text # <<>> /\ text[1] = "-" /\ AllDigits(Tail(text)))

Splits(text) ==
    {ij \in (1..Len(text)) \X (1..Len(text)) :
        /\ ij[1] < ij[2]
        /\ text[ij[1]] = ":" /\ text[ij[2]] = ":"
        /\ AllDigits(SubSeq(text, 1, ij[1] - 1))
        /\ AllDigits(SubSeq(text, ij[1] + 1, ij[2] - 1))
        /\ FileField(SubSeq(text, ij[2] + 1, Len(text)))}

MatchesGrammar(text) == Splits(text) # {}

\* The three fields of a string that matches the grammar.
Fields(text) ==
    LET ij == CHOOSE x \in Splits(text) : TRUE
    IN  <<SubSeq(text, 1, ij[1] - 1), SubSeq(text, ij[1] + 1, ij[2] - 1),
          SubSeq(text, ij[2] + 1, Len(text))>>

\* A triple (s, l, f) of numbers: no field is empty or a lone minus sign.
WellFormed(text) ==
    MatchesGrammar(text) /\ \A i \in 1..3 : IntOk(Fields(text)[i])

NumS(text) == int(Fields(text)[1])
NumL(text) == int(Fields(text)[2])
NumF(text) == int(Fields(text)[3])

Resolvable(text, cu) == WellFormed(text) /\ NumF(text) \in DOMAIN source_units(cu)

FileOf(text, cu) == filename_lookup(cu, source_units(cu)[NumF(text)])

Converted == pc = "converted"

\* C1: every Source that _convert_source_mapping returns has
\* end = start + length, whichever of its three outcomes produced it.
C1_EndIsStartPlusLength ==
    (Converted /\ ret.kind = "return")
        => ret.value.end = ret.value.start + ret.value.length

\* C2: any two Source objects that are equal by __eq__ have the same __hash__.
C2_EqualSpansHashEqual ==
    \A i \in Held, j \in Held :
        __eq__(heap[i], heap[j]) => __hash__(heap[i]) = __hash__(heap[j])

\* C3: a raw string that does not match the grammar as a whole is never
\* converted to a Source other than the all-default one: no start, length or
\* file is taken from a part of it.
C3_MalformedGivesDefault ==
    (Converted /\ ~MatchesGrammar(offset) /\ ret.kind = "return")
        => ret = Return(Source(compilation_unit))

\* C4: for a well-formed triple of a known file, a line lookup that fails for
\* the start offset or for the end offset makes the conversion raise the
\* SlitherException that names filename.short.
C4_LookupFailureIsStaleArtifacts ==
    (/\ Converted
     /\ Resolvable(offset, compilation_unit)
     /\ \/ NumS(offset) \notin KnownOffsets(compilation_unit, FileOf(offset, compilation_unit))
        \/ NumS(offset) + NumL(offset)
               \notin KnownOffsets(compilation_unit, FileOf(offset, compilation_unit)))
        => ret = Raise("SlitherException", FileOf(offset, compilation_unit).short)

LineOf(cu, filename, n) == get_line_from_offset(cu, filename, n)[1]
ColumnOf(cu, filename, n) == get_line_from_offset(cu, filename, n)[2]

NonDecreasing(cu, filename) ==
    \A m \in KnownOffsets(cu, filename), n \in KnownOffsets(cu, filename) :
        m <= n => LineOf(cu, filename, m) <= LineOf(cu, filename, n)

\* The lines a .. b, in ascending order.
Run(a, b) == [i \in 1..(b - a + 1) |-> a + i - 1]

\* The well-formed triples of a known file whose two offsets the line index knows.
Located(text, cu) ==
    /\ Resolvable(text, cu)
    /\ NonDecreasing(cu, FileOf(text, cu))
    /\ NumS(text) \in KnownOffsets(cu, FileOf(text, cu))
    /\ NumS(text) + NumL(text) \in KnownOffsets(cu, FileOf(text, cu))

\* C5: a well-formed triple (s, l, f) of a known file, both of whose offsets
\* the line index knows, is converted to a Source with end = s + l whose lines
\* are the non-empty ascending run from the line of s to the line of s + l and
\* whose columns are those of s and of s + l; a zero-length span has the one
\* line of s and equal columns.
C5_ResolvedSpanLines ==
    (Converted /\ Located(offset, compilation_unit)) =>
        LET cu == compilation_unit
            file == FileOf(offset, cu)
            s == NumS(offset)
            l == NumL(offset)
        IN  /\ ret.kind = "return"
            /\ ret.value.start = s /\ ret.value.length = l
            /\ ret.value.end = s + l
            /\ ret.value.lines # <<>>
            /\ ret.value.lines = Run(LineOf(cu, file, s), LineOf(cu, file, s + l))
            /\ ret.value.starting_column = ColumnOf(cu, file, s)
            /\ ret.value.ending_column = ColumnOf(cu, file, s + l)
            /\ l = 0 => /\ ret.value.lines = <<LineOf(cu, file, s)>>
                        /\ ret.value.starting_column = ret.value.ending_column

\* C5 happens: a span that starts on one line and ends on a later one.
C5_Witness ==
    /\ Converted
    /\ Located(offset, compilation_unit)
    /\ ret.kind = "return"
    /\ Len(ret.value.lines) >= 2

\* An empty start or length reads as 0.
NatOrZero(text) == IF text = <<>> THEN 0 ELSE int(text)

NoFile == {<<>>, <<"-">>, <<"-", "1">>}

\* C6: every string that matches the grammar is converted without an error of
\* its own (only a failed line lookup may end the conversion): an empty start
\* or length is read as 0, and a file index of -1, a lone minus sign or
\* nothing gives the unresolved Source that carries start and length only.
C6_TotalOnWireFormat ==
    (Converted /\ MatchesGrammar(offset)) =>
        /\ ret.kind = "raise" => ret.exc \in {"KeyError", "SlitherException"}
        /\ ret.kind = "return" =>
              /\ ret.value.start = NatOrZero(Fields(offset)[1])
              /\ ret.value.length = NatOrZero(Fields(offset)[2])
        /\ Fields(offset)[3] \in NoFile =>
              ret = Return([Source(compilation_unit) EXCEPT
                               !.start = NatOrZero(Fields(offset)[1]),
                               !.length = NatOrZero(Fields(offset)[2])])

(***************************************************************************)
(* Byte offsets of the characters of a text.                               *)
(***************************************************************************)
Width(cp) == IF cp < 128 THEN 1 ELSE IF cp < 2048 THEN 2 ELSE 3

RECURSIVE BytesBefore(_, _)
BytesBefore(text, k) ==             \* the bytes of the first k characters
    IF k = 0 THEN 0 ELSE BytesBefore(text, k - 1) + Width(text[k])

\* The byte offsets at which a character of the text starts, and its end.
Boundaries(text) == {BytesBefore(text, k) : k \in 0..Len(text)}

CharsBefore(text, n) == CHOOSE k \in 0..Len(text) : BytesBefore(text, k) = n

\* The characters whose bytes occupy [a, b), for a <= b on boundaries.
CharsOfBytes(text, a, b) == SubSeq(text, CharsBefore(text, a) + 1, CharsBefore(text, b))

ContentCalled ==
    /\ pc = "done"
    /\ out.op = "content"
    /\ ret.value.filename.absolute \in DOMAIN source_code(ret.value.compilation_unit)

TextOf(self) == source_code(self.compilation_unit)[self.filename.absolute]

OnBoundaries(self) ==
    self.start \in Boundaries(TextOf(self)) /\ self.end \in Boundaries(TextOf(self))

Displayed(op) == pc = "done" /\ out.op = op

\* The line suffix: nothing without lines, prefix descr first for one line,
\* prefix descr first - descr last for more.
Suffix(self, descr) ==
    LET prefix == line_prefix(self.compilation_unit)
        first == str(self.lines[1])
        final == str(self.lines[Len(self.lines)])
    IN  IF Len(self.lines) = 0 THEN <<>>
        ELSE IF Len(self.lines) = 1 THEN prefix \o descr \o first
        ELSE prefix \o descr \o first \o <<"-">> \o descr \o final

Columns(self) ==
    <<" ", "(">> \o str(self.starting_column) \o <<" ", "-", " ">>
    \o str(self.ending_column) \o <<")">>

\* C9 as stated: the three display forms share the one suffix whose line
\* numbers follow "L".
C9_SharedSuffix ==
    /\ Displayed("__str__") =>
          out.result.value = ret.value.filename.short \o Suffix(ret.value, <<"L">>)
    /\ Displayed("to_markdown") =>
          out.result.value = out.result.root \o ret.value.filename.relative
                             \o Suffix(ret.value, <<"L">>)
    /\ Displayed("to_detailed_str") =>
          out.result.value = ret.value.filename.short \o Suffix(ret.value, <<"L">>)
                             \o Columns(ret.value)

\* C9, amended: the three display forms share the shape of the suffix, but
\* only the link form (to_markdown) writes "L" before each line number; the
\* compact form (__str__) and the detailed form (to_detailed_str) write the
\* line numbers right after the prefix and after the dash.
C9_DisplayForms ==
    /\ Displayed("__str__") =>
          out.result.value = ret.value.filename.short \o Suffix(ret.value, <<>>)
    /\ Displayed("to_markdown") =>
          out.result.value = out.result.root \o ret.value.filename.relative
                             \o Suffix(ret.value, <<"L">>)
    /\ Displayed("to_detailed_str") =>
          out.result.value = ret.value.filename.short \o Suffix(ret.value, <<>>)
                             \o Columns(ret.value)

\* C9 happens: the compact form of a span of several lines.
C9_Witness ==
    /\ Displayed("__str__")
    /\ Len(ret.value.lines) >= 2

\* C8: the references of every entity are exactly the spans that its
\* add_reference_from_raw_source calls returned, in the order of the calls:
\* a call that returns appends one, a call that raises and every set_offset
\* leave the list as it is.
C8_ReferencesAreCallHistory ==
    \A e \in Entities :
        /\ Len(references[e]) = Len(history[e])
        /\ \A i \in 1..Len(references[e]) :
              /\ Span(heap[references[e][i]]) = history[e][i]
              /\ \A j \in 1..Len(references[e]) :
                    i < j => references[e][i] < references[e][j]

\* C8 happens: an entity with two different references and a primary span,
\* right after one of its add_reference_from_raw_source calls raised.
C8_Witness ==
    /\ last = [op |-> "add_reference_from_raw_source", outcome |-> "SlitherException"]
    /\ \E e \in Entities :
          /\ Len(references[e]) = 2
          /\ Span(heap[references[e][1]]) # Span(heap[references[e][2]])
          /\ source_mapping[e] # None

\* C10: a step that sets the primary span of one entity leaves the primary
\* span of every other entity the same object with the same fields, the
\* compilation unit among them.
C10_SetOffsetFrame ==
    [][\A a \in Entities :
          (/\ source_mapping[a] # None
           /\ \E b \in Entities \ {a} : source_mapping'[b] # source_mapping[b])
              => /\ source_mapping'[a] = source_mapping[a]
                 /\ heap'[source_mapping[a]] = heap[source_mapping[a]]]_vars

====
